---- MODULE Spec2Model ----
(***************************************************************************)
(* InvestMon (src/investmon.py): a Flask application with two stores.      *)
(*   - the price store, table `stocks` of stocks.db, filled by CSV upload; *)
(*   - the ledger, investments.db: Investment, Transaction and Portfolio   *)
(*     (holding) rows.                                                     *)
(* Every route runs to completion before the next one starts, so each      *)
(* request handler is one action.                                          *)
(*                                                                         *)
(* Numbers: the columns are SQLite REAL / Python float.  The model uses    *)
(* small integers, on which the float operations of the handlers (+, *,    *)
(* comparison with 0, truthiness) are exact.                               *)
(* Optional values (a NULL column, Python None) are sequences: <<>> is     *)
(* None and <<v>> is the value v.                                          *)
(***************************************************************************)
EXTENDS Integers, Sequences, FiniteSets, TLC

VARIABLES
    investments,    \* rows of table investment
    transactions,   \* rows of table transaction
    portfolio,      \* rows of table portfolio (the holdings)
    stocks,         \* rows of table stocks (the price store)
    last,           \* history: the request handled last and its inputs
    lastMV,         \* history: account -> value last entered by update_market_value
    seen,           \* history: <<symbol, close>> the refresh passes found most recent
    investment_snapshots,   \* rows of table investment_snapshot
    account_snapshots       \* rows of table account_snapshot

snapshotVars == <<investment_snapshots, account_snapshots>>

vars == <<investments, transactions, portfolio, stocks, last, lastMV, seen,
          investment_snapshots, account_snapshots>>

-----------------------------------------------------------------------------
(* Bounds of the model.  Row ids grow without limit in the program (a new   *)
(* row gets the largest id + 1); the guards of the inserting actions keep   *)
(* them within MaxInvestments, MaxTransactions and MaxHoldings.             *)

MaxInvestments == 2
MaxTransactions == 2
MaxHoldings == 2
MaxShares == 2
MaxPrice == 1
MaxRows == 2
MaxFiles == 2
MaxSnapshots == 2

\* Form values of a money field: signed amounts.
Amounts == {0 - 1, 0, 1}
\* The descriptive columns name, platform, account_name, type taken together.
Infos == {"goal-1", "goal-2"}
\* Prices and manually entered market values of the forms.
Prices == 0..MaxPrice
\* Close values a CSV carries.
Closes == {0, 1}
Shares == 1..MaxShares
Accounts == {"acct-A", "acct-B"}
\* Calendar days; day d stands for the text 'YYYY-MM-DD', whose text order
\* is the order of the days.
Days == {1, 2}
\* Symbols as they are typed in a form or written in a CSV.
RawSymbols == {"aaa", "NON-STOCK"}
\* Symbols a CSV carries (stored as written).
CsvSymbols == {"AAA", "NON-STOCK"}
\* Spellings of a date in a CSV.
DateFormats == {"iso", "slash"}

None == <<>>
Some(v) == <<v>>

Max(S) == CHOOSE x \in S : \A y \in S : y <= x

\* SQLite rowid of an INTEGER PRIMARY KEY column without AUTOINCREMENT:
\* one more than the largest id in the table, 1 in an empty table.
NextId(rows) == IF rows = {} THEN 1 ELSE Max({r.id : r \in rows}) + 1

RECURSIVE SumAmounts(_)
SumAmounts(txs) ==
    IF txs = {} THEN 0
    ELSE LET t == CHOOSE t \in txs : TRUE
         IN  t.amount + SumAmounts(txs \ {t})

-----------------------------------------------------------------------------
(* Ledger: Investment and Transaction.                                     *)

\* add_investment: initial_amount_str.strip(), then float() or 0.0 if blank.
\* A form field is <<>> (absent or blank) or <<a>>.
AmountFields == {None} \cup {Some(a) : a \in Amounts}
ParseInitialAmount(field) == IF field = None THEN 0 ELSE field[1]

\* add_investment: the accompanying transaction, created `if initial_amount > 0`.
InitialTransactions(txs, id, a) ==
    IF a > 0
    THEN txs \cup {[id |-> NextId(txs), amount |-> a, investment_id |-> id,
                    notes |-> "Initial investment"]}
    ELSE txs

AddInvestment(info, field) ==
    LET a   == ParseInitialAmount(field)
        id  == NextId(investments)
        inv == [id |-> id, info |-> info, total_amount |-> a, actual_amount |-> a]
    IN  /\ id <= MaxInvestments
        /\ NextId(transactions) <= MaxTransactions
        /\ investments' = investments \cup {inv}
        /\ transactions' = InitialTransactions(transactions, id, a)
        /\ last' = [op |-> "add_investment", id |-> id, field |-> field]
        /\ UNCHANGED <<portfolio, stocks, lastMV, seen, snapshotVars>>

\* edit_investment (POST): the descriptive columns only.
EditInvestment(id, info) ==
    /\ \E inv \in investments : inv.id = id
    /\ investments' = {IF inv.id = id THEN [inv EXCEPT !.info = info] ELSE inv :
                         inv \in investments}
    /\ last' = [op |-> "edit_investment"]
    /\ UNCHANGED <<transactions, portfolio, stocks, lastMV, seen, snapshotVars>>

\* delete_investment: Transaction.query.filter_by(investment_id=id).delete()
DeleteTransactionsOf_Skip(txs, id) == txs

DeleteTransactionsOf(txs, id) == {t \in txs : t.investment_id # id}

DeleteInvestment(id) ==
    /\ \E inv \in investments : inv.id = id
    /\ transactions' = DeleteTransactionsOf(transactions, id)
    /\ investments' = {inv \in investments : inv.id # id}
    /\ last' = [op |-> "delete_investment", id |-> id,
                removed |-> Cardinality({t \in transactions : t.investment_id = id})]
    /\ UNCHANGED <<portfolio, stocks, lastMV, seen, snapshotVars>>

\* transactions (POST): add a transaction and bump the running total.
AddTransaction(id, amount, notes) ==
    /\ \E inv \in investments : inv.id = id
    /\ NextId(transactions) <= MaxTransactions
    /\ transactions' = transactions \cup
          {[id |-> NextId(transactions), amount |-> amount, investment_id |-> id,
            notes |-> notes]}
    /\ investments' = {IF inv.id = id
                       THEN [inv EXCEPT !.total_amount = inv.total_amount + amount]
                       ELSE inv : inv \in investments}
    /\ last' = [op |-> "transactions"]
    /\ UNCHANGED <<portfolio, stocks, lastMV, seen, snapshotVars>>

UpdateActualAmount(id, amount) ==
    /\ \E inv \in investments : inv.id = id
    /\ investments' = {IF inv.id = id THEN [inv EXCEPT !.actual_amount = amount]
                       ELSE inv : inv \in investments}
    /\ last' = [op |-> "update_actual_amount"]
    /\ UNCHANGED <<transactions, portfolio, stocks, lastMV, seen, snapshotVars>>

-----------------------------------------------------------------------------
(* Price store: table stocks, UNIQUE(symbol, date).  A row is modelled by   *)
(* its key and its close; open, high, low, volume and nfb_nfs are carried   *)
(* through upload exactly as close is and are read by no handler modelled   *)
(* here.  The AUTOINCREMENT id of a row is read by no handler either, so    *)
(* the table is the set of its (symbol, date, close) rows.                  *)

\* A line of an uploaded CSV: the date as written, in one of its spellings.
CsvRows == [symbol : CsvSymbols, date : [day : Days, fmt : DateFormats], close : Closes]
\* Uploaded CSV files with 1..MaxRows data lines.
Files == UNION {[1..n -> CsvRows] : n \in 1..MaxRows}
\* The same with a single line and ISO dates.
SmallFiles == {f \in Files : Len(f) = 1 /\ f[1].date.fmt = "iso"}

\* pd.to_datetime(df['date']).dt.strftime('%Y-%m-%d'): every spelling of a
\* day becomes the one text 'YYYY-MM-DD' of that day.
NormalizeDate(raw) == raw.day

\* pd.to_datetime(df['date']) reads every date of the file.
Parses(f) == \A i \in 1..Len(f) : f[i].date.fmt \in DateFormats

\* The DataFrame of a file after the date conversion.
ReadCsv(f) ==
    [i \in 1..Len(f) |->
        [symbol |-> f[i].symbol, date |-> NormalizeDate(f[i].date), close |-> f[i].close]]

Range(seq) == {seq[i] : i \in 1..Len(seq)}
UniqueDates(df) == {df[i].date : i \in 1..Len(df)}
Key(r) == <<r.symbol, r.date>>

\* DELETE FROM stocks WHERE date IN (unique_dates); commit
DeleteMatchingDates_None(store, df) == store

DeleteMatchingDates_SameKeys(store, df) ==
    {r \in store : \A i \in 1..Len(df) : Key(r) # Key(df[i])}

DeleteMatchingDates(store, df) == {r \in store : r.date \notin UniqueDates(df)}

\* df.to_sql(..., if_exists='append') raises on UNIQUE(symbol, date): a key of
\* the frame already in the table, or twice in the frame.
InsertFails(store, df) ==
    \E i \in 1..Len(df) :
        \/ \E r \in store : Key(r) = Key(df[i])
        \/ \E j \in 1..Len(df) : j # i /\ Key(df[j]) = Key(df[i])

\* The body of the loop of upload for one CSV file.  The delete is committed
\* before the insert; the insert is one transaction, rolled back as a whole
\* when it raises, and the exception is caught by the handler.
\* pd.to_datetime raises on a date it cannot read, before the store is touched.
ProcessFile(store, f) ==
    IF ~Parses(f)
    THEN [store |-> store, ok |-> FALSE, records |-> 0]
    ELSE LET df   == ReadCsv(f)
             kept == DeleteMatchingDates(store, df)
         IN  IF InsertFails(kept, df)
             THEN [store |-> kept, ok |-> FALSE, records |-> 0]
             ELSE [store |-> kept \cup Range(df), ok |-> TRUE, records |-> Len(df)]

\* The loop of upload over the files of the request.
RECURSIVE ProcessFiles(_, _)
ProcessFiles(store, files) ==
    IF files = <<>>
    THEN [store |-> store, processed_files |-> 0, total_records |-> 0]
    ELSE LET one  == ProcessFile(store, Head(files))
             rest == ProcessFiles(one.store, Tail(files))
         IN  [store |-> rest.store,
              processed_files |-> rest.processed_files + (IF one.ok THEN 1 ELSE 0),
              total_records |-> rest.total_records + one.records]

\* upload (POST) with one CSV file, drawn from F.
Upload(F) ==
    \E f \in F :
        LET res == ProcessFiles(stocks, <<f>>)
        IN  /\ stocks' = res.store
            /\ last' = [op |-> "upload", processed_files |-> res.processed_files,
                        total_records |-> res.total_records]
            /\ UNCHANGED <<investments, transactions, portfolio, lastMV, seen, snapshotVars>>

\* Whether each file of the request was processed without an exception.
RECURSIVE Outcomes(_, _)
Outcomes(store, files) ==
    IF files = <<>> THEN <<>>
    ELSE LET one == ProcessFile(store, Head(files))
         IN  <<one.ok>> \o Outcomes(one.store, Tail(files))

\* upload (POST) with the CSV files of one request, drawn from R.
UploadFiles(R) ==
    \E files \in R :
        LET res == ProcessFiles(stocks, files)
        IN  /\ stocks' = res.store
            /\ last' = [op |-> "upload", files |-> files,
                        processed_files |-> res.processed_files,
                        total_records |-> res.total_records]
            /\ UNCHANGED <<investments, transactions, portfolio, lastMV, seen, snapshotVars>>

-----------------------------------------------------------------------------
(* Holdings: table portfolio.  The optional investment_id column is written *)
(* by add_portfolio and edit_portfolio and read by no handler; it is left   *)
(* out of the rows.                                                         *)

\* request.form['symbol'].upper()
Upper(s) == IF s = "aaa" THEN "AAA" ELSE IF s = "bbb" THEN "BBB" ELSE s

\* Python truthiness of an optional float: None and 0.0 are false.
Truthy(x) == x # None /\ x[1] # 0

total_cost(h) == h.shares * h.average_price

market_value(h) ==
    h.shares * (IF Truthy(h.latest_price) THEN h.latest_price[1] ELSE h.average_price)

profit(h) == market_value(h) - total_cost(h)

\* SELECT close FROM stocks WHERE symbol = ? ORDER BY date DESC LIMIT 1,
\* or None when COUNT(*) is 0.
LatestClose(store, symbol) ==
    LET rs == {r \in store : r.symbol = symbol}
    IN  IF rs = {} THEN None
        ELSE Some((CHOOSE r \in rs : \A q \in rs : q.date <= r.date).close)

\* The body of the refresh loop: `if latest_price: p.latest_price = latest_price`.
RefreshPrice(store, p) ==
    LET latest_price == LatestClose(store, p.symbol)
    IN  IF Truthy(latest_price) THEN [p EXCEPT !.latest_price = latest_price] ELSE p

\* The refresh loop over Portfolio.query.all().
RefreshAll(store, rows) == {RefreshPrice(store, p) : p \in rows}

\* The refresh loop over Portfolio.query.filter(Portfolio.symbol != 'NON-STOCK').
RefreshStocks(store, rows) ==
    {IF p.symbol # "NON-STOCK" THEN RefreshPrice(store, p) ELSE p : p \in rows}

\* History of the refresh passes: the closes the price store held as the
\* most recent close of a traded symbol when a pass ran.
Observe(store, closes) ==
    closes \cup {<<r.symbol, LatestClose(store, r.symbol)[1]>> :
                    r \in {q \in store : q.symbol # "NON-STOCK"}}

InvestmentsView ==
    /\ portfolio' = RefreshAll(stocks, portfolio)
    /\ last' = [op |-> "investments"]
    /\ seen' = Observe(stocks, seen)
    /\ UNCHANGED <<investments, transactions, stocks, lastMV, snapshotVars>>

PortfolioView ==
    /\ portfolio' = RefreshStocks(stocks, portfolio)
    /\ last' = [op |-> "portfolio"]
    /\ seen' = Observe(stocks, seen)
    /\ UNCHANGED <<investments, transactions, stocks, lastMV, snapshotVars>>

UpdatePrices ==
    /\ portfolio' = RefreshAll(stocks, portfolio)
    /\ last' = [op |-> "update_prices"]
    /\ seen' = Observe(stocks, seen)
    /\ UNCHANGED <<investments, transactions, stocks, lastMV, snapshotVars>>

\* A float quotient n / d (d # 0) as the fraction in lowest terms with a
\* positive denominator; <<0, 1>> is 0.
Abs(x) == IF x < 0 THEN 0 - x ELSE x

RECURSIVE Gcd(_, _)
Gcd(a, b) == IF b = 0 THEN a ELSE Gcd(b, a % b)

Ratio(n, d) ==
    LET g == Gcd(Abs(n), Abs(d))
        sgn == IF d < 0 THEN 0 - 1 ELSE 1
    IN  <<(sgn * n) \div g, (sgn * d) \div g>>

\* my_stocks: the accumulation loop over the holdings of one symbol.
RECURSIVE GroupTotals(_)
GroupTotals(rows) ==
    IF rows = {}
    THEN [total_shares |-> 0, total_cost |-> 0, market_value |-> 0, profit |-> 0]
    ELSE LET h == CHOOSE h \in rows : TRUE
             t == GroupTotals(rows \ {h})
         IN  [total_shares |-> t.total_shares + h.shares,
              total_cost   |-> t.total_cost + total_cost(h),
              market_value |-> t.market_value + market_value(h),
              profit       |-> t.profit + profit(h)]

\* my_stocks: `if data['total_shares'] > 0` ... else 0
GroupAveragePrice(t) ==
    IF t.total_shares > 0 THEN Ratio(t.total_cost, t.total_shares) ELSE <<0, 1>>

\* my_stocks: the for/else over the holdings, in query (rowid) order: the
\* latest_price of the first holding of the symbol whose latest_price is
\* truthy, else 0.
GroupLatestPrice(rows) ==
    LET priced == {h \in rows : Truthy(h.latest_price)}
    IN  IF priced = {} THEN 0
        ELSE (CHOOSE h \in priced : \A q \in priced : h.id <= q.id).latest_price[1]

\* my_stocks: the aggregation of the holdings other than NON-STOCK by symbol.
AggregateBySymbol(rows) ==
    LET portfolios == {h \in rows : h.symbol # "NON-STOCK"}
    IN  [symbol \in {h.symbol : h \in portfolios} |->
            LET group == {h \in portfolios : h.symbol = symbol}
                t     == GroupTotals(group)
            IN  [total_shares  |-> t.total_shares,
                 total_cost    |-> t.total_cost,
                 market_value  |-> t.market_value,
                 profit        |-> t.profit,
                 average_price |-> GroupAveragePrice(t),
                 latest_price  |-> GroupLatestPrice(group)]]

MyStocks ==
    /\ portfolio' = RefreshStocks(stocks, portfolio)
    /\ last' = [op |-> "my_stocks", stocks |-> AggregateBySymbol(portfolio')]
    /\ seen' = Observe(stocks, seen)
    /\ UNCHANGED <<investments, transactions, stocks, lastMV, snapshotVars>>

\* update_market_value: get-or-create of the NON-STOCK row of the account.
\* .first() has no ORDER BY; SQLite scans the table in rowid order, so the
\* row found is the one with the smallest id.
UpsertNonStock_AlwaysInsert(rows, account, mv) ==
    rows \cup {[id |-> NextId(rows), symbol |-> "NON-STOCK", shares |-> 1,
                average_price |-> mv, latest_price |-> Some(mv), account |-> account]}

UpsertNonStock(rows, account, mv) ==
    LET found == {p \in rows : p.account = account /\ p.symbol = "NON-STOCK"}
    IN  IF found = {}
        THEN rows \cup {[id |-> NextId(rows), symbol |-> "NON-STOCK", shares |-> 1,
                         average_price |-> mv, latest_price |-> Some(mv),
                         account |-> account]}
        ELSE LET first == CHOOSE p \in found : \A q \in found : p.id <= q.id
             IN  {IF p.id = first.id
                  THEN [p EXCEPT !.average_price = mv, !.latest_price = Some(mv)]
                  ELSE p : p \in rows}

UpdateMarketValue(account, mv) ==
    LET found == {p \in portfolio : p.account = account /\ p.symbol = "NON-STOCK"}
    IN  /\ found = {} => NextId(portfolio) <= MaxHoldings
        /\ portfolio' = UpsertNonStock(portfolio, account, mv)
        /\ lastMV' = [lastMV EXCEPT ![account] = Some(mv)]
        /\ last' = [op |-> "update_market_value", account |-> account,
                    inserted |-> (found = {})]
        /\ UNCHANGED <<investments, transactions, stocks, seen, snapshotVars>>

AddPortfolio(symbol, shares, average_price, account) ==
    /\ NextId(portfolio) <= MaxHoldings
    /\ portfolio' = portfolio \cup
          {[id |-> NextId(portfolio), symbol |-> Upper(symbol), shares |-> shares,
            average_price |-> average_price, latest_price |-> None,
            account |-> account]}
    /\ last' = [op |-> "add_portfolio"]
    /\ UNCHANGED <<investments, transactions, stocks, lastMV, seen, snapshotVars>>

EditPortfolio(id, symbol, shares, average_price, account) ==
    /\ \E p \in portfolio : p.id = id
    /\ portfolio' = {IF p.id = id
                     THEN [p EXCEPT !.symbol = Upper(symbol), !.shares = shares,
                                    !.average_price = average_price,
                                    !.account = account]
                     ELSE p : p \in portfolio}
    /\ last' = [op |-> "edit_portfolio"]
    /\ UNCHANGED <<investments, transactions, stocks, lastMV, seen, snapshotVars>>

DeletePortfolio(id) ==
    /\ \E p \in portfolio : p.id = id
    /\ portfolio' = {p \in portfolio : p.id # id}
    /\ last' = [op |-> "delete_portfolio"]
    /\ UNCHANGED <<investments, transactions, stocks, lastMV, seen, snapshotVars>>

HoldingIds == 1..MaxHoldings

InvestmentIds == 1..MaxInvestments
\* notes of a transaction form: request.form.get('notes', '')
Notes == {""}

-----------------------------------------------------------------------------
(* Snapshots: tables investment_snapshot and account_snapshot.  A row is    *)
(* modelled by its id, its timestamp and, for an account snapshot, its      *)
(* account_name; the goal, platform, type and the four amounts are stored   *)
(* as posted and read by no handler modelled here.                          *)

\* datetime.utcnow: a calendar day and a time of that day.
Times == {"09:00", "17:30"}
Stamps == [day : Days, time : Times]

\* strftime('%Y-%m-%d', date): the calendar day of a timestamp.
DayOf(stamp) == stamp.day

\* request.args.get('account', '') and request.args.get('date', ''): '' when
\* the parameter is absent.  A date filter is None when '', else a day.
AccountFilters == {""} \cup Accounts
DateFilters == {None} \cup {Some(d) : d \in Days}

SaveSnapshot(now) ==
    /\ NextId(investment_snapshots) <= MaxSnapshots
    /\ investment_snapshots' = investment_snapshots \cup
          {[id |-> NextId(investment_snapshots), date |-> now]}
    /\ last' = [op |-> "save_snapshot"]
    /\ UNCHANGED <<investments, transactions, portfolio, stocks, lastMV, seen,
                   account_snapshots>>

DeleteSnapshot(id) ==
    /\ \E s \in investment_snapshots : s.id = id
    /\ investment_snapshots' = {s \in investment_snapshots : s.id # id}
    /\ last' = [op |-> "delete_snapshot"]
    /\ UNCHANGED <<investments, transactions, portfolio, stocks, lastMV, seen,
                   account_snapshots>>

\* The loop of save_account_snapshot over data['accounts'], committed once.
SaveAccountSnapshot(accounts, now) ==
    /\ NextId(account_snapshots) + Len(accounts) - 1 <= MaxSnapshots
    /\ account_snapshots' = account_snapshots \cup
          {[id |-> NextId(account_snapshots) + i - 1, date |-> now,
            account_name |-> accounts[i]] : i \in 1..Len(accounts)}
    /\ last' = [op |-> "save_account_snapshot", saved |-> Len(accounts)]
    /\ UNCHANGED <<investments, transactions, portfolio, stocks, lastMV, seen,
                   investment_snapshots>>

DeleteAccountSnapshot(id) ==
    /\ \E s \in account_snapshots : s.id = id
    /\ account_snapshots' = {s \in account_snapshots : s.id # id}
    /\ last' = [op |-> "delete_account_snapshot"]
    /\ UNCHANGED <<investments, transactions, portfolio, stocks, lastMV, seen,
                   investment_snapshots>>

\* The query of bulk_delete_account_snapshots: `if account:` adds
\* filter_by(account_name=account), `if date:` adds the strftime filter.
MatchesFilters_Either(s, account, date) ==
    \/ account = "" /\ date = None
    \/ account # "" /\ s.account_name = account
    \/ date # None /\ DayOf(s.date) = date[1]

MatchesFilters(s, account, date) ==
    /\ account # "" => s.account_name = account
    /\ date # None => DayOf(s.date) = date[1]

BulkDeleteAccountSnapshots(account, date) ==
    LET doomed == {s \in account_snapshots : MatchesFilters(s, account, date)}
    IN  /\ account_snapshots' = account_snapshots \ doomed
        /\ last' = [op |-> "bulk_delete_account_snapshots", account |-> account,
                    date |-> date, deleted |-> Cardinality(doomed)]
        /\ UNCHANGED <<investments, transactions, portfolio, stocks, lastMV, seen,
                       investment_snapshots>>

-----------------------------------------------------------------------------
(* Stocks index: the latest snapshot with the change since the prior record *)

\* A float NaN, as pandas holds a missing value in a float column.
NaN == <<0, 0>>

\* SELECT MAX(date) FROM stocks
LatestDate(store) == Max({r.date : r \in store})

\* SELECT close FROM stocks WHERE symbol = ? AND date < ? ORDER BY date DESC
\* LIMIT 1, or None when COUNT(*) is 0.
PreviousClose(store, symbol, latest_date) ==
    LET rs == {r \in store : r.symbol = symbol /\ r.date < latest_date}
    IN  IF rs = {} THEN None
        ELSE Some((CHOOSE r \in rs : \A q \in rs : q.date <= r.date).close)

\* pd.DataFrame(previous_closes): a column of floats and None is a float
\* column in which None is NaN; a column of None only keeps None.
FrameCell(cells, cell) ==
    IF cell = None /\ (\E c \in cells : c # None) THEN NaN ELSE cell

\* Series.round(2) of the quotient n / d, d > 0: to the nearest hundredth,
\* a tie to the even one.
Round2(n, d) ==
    LET k   == (n * 100) \div d
        rem == (n * 100) - (k * d)
        up  == (2 * rem > d) \/ (2 * rem = d /\ k % 2 = 1)
    IN  Ratio(IF up THEN k + 1 ELSE k, 100)

\* The lambda of index: NaN is true and differs from 0, and every
\* arithmetic on it gives NaN.
ChangePct(close, previous_close) ==
    IF previous_close = NaN THEN NaN
    ELSE IF Truthy(previous_close) /\ previous_close[1] # 0
         THEN LET n == (close - previous_close[1]) * 100
                  d == previous_close[1]
              IN  IF d > 0 THEN Round2(n, d) ELSE Round2(0 - n, 0 - d)
         ELSE Ratio(0, 1)

\* index (GET /stocks).  On an empty price store the merge on 'symbol'
\* raises and nothing is rendered.
Index ==
    /\ stocks # {}
    /\ LET latest_date == LatestDate(stocks)
           latest_data == {r \in stocks : r.date = latest_date}
           cells == {PreviousClose(stocks, r.symbol, latest_date) : r \in latest_data}
       IN  last' = [op |-> "index", latest_date |-> latest_date,
                    rows |-> {[symbol |-> r.symbol, close |-> r.close,
                               change_pct |->
                                 ChangePct(r.close,
                                   FrameCell(cells,
                                     PreviousClose(stocks, r.symbol, latest_date)))] :
                              r \in latest_data}]
    /\ UNCHANGED <<investments, transactions, portfolio, stocks, lastMV, seen, snapshotVars>>


Init ==
    /\ investments = {}
    /\ transactions = {}
    /\ portfolio = {}
    /\ stocks = {}
    /\ last = [op |-> "init"]
    /\ lastMV = [a \in Accounts |-> None]
    /\ seen = {}
    /\ investment_snapshots = {}
    /\ account_snapshots = {}

NextLedger ==
    \/ \E info \in Infos, field \in AmountFields : AddInvestment(info, field)
    \/ \E id \in InvestmentIds, info \in Infos : EditInvestment(id, info)
    \/ \E id \in InvestmentIds : DeleteInvestment(id)
    \/ \E id \in InvestmentIds, a \in Amounts, n \in Notes : AddTransaction(id, a, n)
    \/ \E id \in InvestmentIds, a \in Amounts : UpdateActualAmount(id, a)

\* The ledger requests; they read and write investments and transactions only.
SpecLedger == Init /\ [][NextLedger]_vars

\* The requests that create and remove the links between Transactions and
\* Investments.
NextLinks ==
    \/ \E info \in Infos, field \in AmountFields : AddInvestment(info, field)
    \/ \E id \in InvestmentIds : DeleteInvestment(id)
    \/ \E id \in InvestmentIds, a \in Amounts, n \in Notes : AddTransaction(id, a, n)

SpecLinks == Init /\ [][NextLinks]_vars

\* Uploads alone; they read and write the price store only.
NextPrices == Upload(Files)

SpecPrices == Init /\ [][NextPrices]_vars

NextHoldings ==
    \/ \E s \in RawSymbols, n \in Shares, ap \in Prices :
          AddPortfolio(s, n, ap, "acct-A")
    \/ \E id \in HoldingIds, s \in RawSymbols, n \in Shares, ap \in Prices :
          EditPortfolio(id, s, n, ap, "acct-A")
    \/ \E id \in HoldingIds : DeletePortfolio(id)
    \/ InvestmentsView
    \/ PortfolioView
    \/ UpdatePrices
    \/ MyStocks
    \/ Upload(SmallFiles)

\* The holding requests, the price-refresh passes and uploads.
SpecHoldings == Init /\ [][NextHoldings]_vars

NextNonStock ==
    \/ \E a \in Accounts, mv \in Prices : UpdateMarketValue(a, mv)
    \/ \E s \in RawSymbols, n \in Shares, ap \in Prices, a \in Accounts :
          AddPortfolio(s, n, ap, a)
    \/ \E id \in HoldingIds, s \in RawSymbols, n \in Shares, ap \in Prices,
          a \in Accounts : EditPortfolio(id, s, n, ap, a)
    \/ \E id \in HoldingIds : DeletePortfolio(id)

\* The requests that insert, edit and delete holdings, manual market values
\* included, over an empty price store.
SpecNonStock == Init /\ [][NextNonStock]_vars

\* update_market_value requests, each followed by the investments view it
\* redirects to, over any content of the price store.
NextMV ==
    \/ \E a \in Accounts, mv \in Prices : UpdateMarketValue(a, mv)
    \/ InvestmentsView
    \/ Upload(SmallFiles)

SpecMV == Init /\ [][NextMV]_vars

\* Share counts as add_portfolio accepts them: float(request.form['shares'])
\* takes any sign.
SignedShares == (0 - 1)..MaxShares

\* my_stocks over holdings of any share count, added and deleted through the
\* forms, with prices uploaded in between.
NextMyStocks ==
    \/ \E s \in RawSymbols, n \in SignedShares \ {0}, ap \in Prices, a \in Accounts :
          AddPortfolio(s, n, ap, a)
    \/ \E id \in HoldingIds : DeletePortfolio(id)
    \/ MyStocks
    \/ Upload(SmallFiles)

SpecMyStocks == Init /\ [][NextMyStocks]_vars

\* Every request of the application.
NextIndex ==
    \/ Upload(Files)
    \/ Index

\* The stocks index page over uploaded price stores.
SpecIndex == Init /\ [][NextIndex]_vars

SnapshotIds == 1..MaxSnapshots
\* data['accounts'] of save_account_snapshot: the account of each entry.
AccountLists == UNION {[1..n -> Accounts] : n \in 0..MaxSnapshots}

NextSnapshots ==
    \/ SaveSnapshot([day |-> 1, time |-> "09:00"])
    \/ \E id \in SnapshotIds : DeleteSnapshot(id)
    \/ \E accounts \in AccountLists, now \in Stamps : SaveAccountSnapshot(accounts, now)
    \/ \E id \in SnapshotIds : DeleteAccountSnapshot(id)
    \/ \E account \in AccountFilters, date \in DateFilters :
          BulkDeleteAccountSnapshots(account, date)

\* The snapshot routes.
SpecSnapshots == Init /\ [][NextSnapshots]_vars

\* A file with the same line twice, and a file whose date cannot be read.
DuplicateKeyFiles ==
    {<<[symbol |-> "AAA", date |-> [day |-> d, fmt |-> "iso"], close |-> c],
       [symbol |-> "AAA", date |-> [day |-> d, fmt |-> "iso"], close |-> c]>> :
        d \in Days, c \in Closes}
UnreadableFile ==
    <<[symbol |-> "AAA", date |-> [day |-> 1, fmt |-> "text"], close |-> 1]>>
RequestFiles == SmallFiles \cup DuplicateKeyFiles \cup {UnreadableFile}
\* The file lists of a request: 1..MaxFiles files.
Requests == UNION {[1..n -> RequestFiles] : n \in 1..MaxFiles}

NextUpload == UploadFiles(Requests)

\* Upload requests of several files, some of which fail.
SpecUpload == Init /\ [][NextUpload]_vars

\* Two traded symbols as the holding forms and the CSV files spell them.
CacheSymbols == {"aaa", "bbb"}
CacheFiles ==
    {<<[symbol |-> Upper(s), date |-> [day |-> d, fmt |-> "iso"], close |-> c]>> :
        s \in CacheSymbols, d \in Days, c \in Closes}

\* Holdings of two traded symbols added, edited (symbol included) and
\* deleted, with uploads and every refresh pass in between.
NextCache ==
    \/ \E s \in CacheSymbols : AddPortfolio(s, 1, 1, "acct-A")
    \/ \E id \in HoldingIds, s \in CacheSymbols : EditPortfolio(id, s, 1, 1, "acct-A")
    \/ \E id \in HoldingIds : DeletePortfolio(id)
    \/ InvestmentsView
    \/ PortfolioView
    \/ UpdatePrices
    \/ MyStocks
    \/ Upload(CacheFiles)

SpecCache == Init /\ [][NextCache]_vars

Next == NextLedger \/ NextPrices \/ NextHoldings \/ NextNonStock

Spec == Init /\ [][Next]_vars

-----------------------------------------------------------------------------
(* Properties.                                                             *)

TransactionsOf(id) == {t \in transactions : t.investment_id = id}

\* C1: each Investment's total_amount is the sum of the amounts of the
\* Transactions that reference it (0 when it has none).
C1_TotalIsSumOfTransactions ==
    \A inv \in investments : inv.total_amount = SumAmounts(TransactionsOf(inv.id))

\* C2: right after add_investment with initial amount a, the new Investment
\* has total_amount = a; for a # 0 exactly one Transaction references it, of
\* amount a and notes "Initial investment"; for a = 0 (or a blank field) none.
C2_AddInvestmentResult ==
    last.op = "add_investment" =>
        LET a == ParseInitialAmount(last.field)
        IN  /\ \E inv \in investments : inv.id = last.id /\ inv.total_amount = a
            /\ IF a # 0
               THEN /\ Cardinality(TransactionsOf(last.id)) = 1
                    /\ \A t \in TransactionsOf(last.id) :
                          t.amount = a /\ t.notes = "Initial investment"
               ELSE TransactionsOf(last.id) = {}

\* Every Transaction references an Investment that exists.
TransactionsReferenceLive ==
    \A t \in transactions : \E inv \in investments : inv.id = t.investment_id

\* A delete_investment(id) step leaves no Transaction of id and leaves the
\* Transactions of every other Investment as they were.
DeleteInvestmentEffect ==
    last'.op = "delete_investment" =>
        /\ \A t \in transactions' : t.investment_id # last'.id
        /\ transactions' = {t \in transactions : t.investment_id # last'.id}

\* C3: every Transaction's investment_id is the id of a live Investment, and
\* delete_investment(id) removes exactly the Transactions of id.
C3_TransactionsLiveAndDeleteExact ==
    []TransactionsReferenceLive /\ [][DeleteInvestmentEffect]_vars

\* C3 witness: an Investment with Transactions was deleted while another
\* Investment keeps its own.
C3_Witness ==
    /\ last.op = "delete_investment"
    /\ last.removed > 0
    /\ transactions # {}

DistinctKeys(df) ==
    \A i, j \in 1..Len(df) : i # j => Key(df[i]) # Key(df[j])

\* C4: for a file whose rows have distinct (symbol, date) keys, uploading it
\* twice leaves the store that uploading it once leaves, with exactly one
\* record for each key of the file.
C4_UploadIdempotent ==
    \A f \in Files :
        DistinctKeys(ReadCsv(f)) =>
            LET df    == ReadCsv(f)
                once  == ProcessFile(stocks, f).store
                twice == ProcessFile(once, f).store
            IN  /\ twice = once
                /\ \A i \in 1..Len(df) :
                      Cardinality({r \in twice : Key(r) = Key(df[i])}) = 1

\* C4 witness: the store holds other days' records and is the result of
\* uploading a two-row file, which uploaded again is processed successfully.
C4_Witness ==
    /\ last.op = "upload"
    /\ last.processed_files = 1
    /\ last.total_records = 2
    /\ \E f \in Files :
          /\ Len(f) = 2
          /\ DistinctKeys(ReadCsv(f))
          /\ Range(ReadCsv(f)) \subseteq stocks
          /\ Range(ReadCsv(f)) # stocks
          /\ ProcessFile(stocks, f).ok

\* C5: after a successful upload of a file with dates D, the records with a
\* date in D are exactly the file's records and every record with a date
\* outside D is unchanged.
C5_UploadReplacesDates ==
    \A f \in Files :
        LET df  == ReadCsv(f)
            D   == UniqueDates(df)
            res == ProcessFile(stocks, f)
        IN  res.ok =>
                /\ {r \in res.store : r.date \in D} = Range(df)
                /\ {r \in res.store : r.date \notin D} = {r \in stocks : r.date \notin D}

\* C5 witness: a one-record upload succeeded on a store that keeps a record
\* of another day, and a file exists whose upload would drop a record of a
\* symbol it does not carry.
C5_Witness ==
    /\ last.op = "upload"
    /\ last.processed_files = 1
    /\ last.total_records = 1
    /\ Cardinality({r.date : r \in stocks}) = 2
    /\ \E f \in Files :
          /\ ProcessFile(stocks, f).ok
          /\ \E r \in stocks :
                /\ r.date \in UniqueDates(ReadCsv(f))
                /\ \A i \in 1..Len(f) : f[i].symbol # r.symbol

\* C6: market_value is shares * latest_price whenever latest_price is set
\* (the value 0 included) and shares * average_price (= total_cost) only
\* when latest_price is unset.
C6_MarketValue ==
    \A h \in portfolio :
        IF h.latest_price # None
        THEN market_value(h) = h.shares * h.latest_price[1]
        ELSE market_value(h) = h.shares * h.average_price
             /\ market_value(h) = total_cost(h)

RefreshRoutes == {"investments", "portfolio", "update_prices", "my_stocks"}

\* The holdings a refresh route iterates.
Iterated(route, p) ==
    route \in {"portfolio", "my_stocks"} => p.symbol # "NON-STOCK"

\* C7: a price-refresh pass leaves every Holding it iterated whose symbol
\* has a Price Store record with latest_price = the close of the symbol's
\* most recent record (a close of 0 included); a Holding whose symbol has no
\* record keeps its latest_price.  Stated for the Holdings of traded symbols;
\* the 'NON-STOCK' rows are the subject of C8.
C7_RefreshStep ==
    last'.op \in RefreshRoutes =>
        \A p \in portfolio :
            (Iterated(last'.op, p) /\ p.symbol # "NON-STOCK") =>
                \E q \in portfolio' :
                    /\ q.id = p.id
                    /\ IF LatestClose(stocks, p.symbol) # None
                       THEN q.latest_price = LatestClose(stocks, p.symbol)
                       ELSE q.latest_price = p.latest_price

C7_RefreshSetsLatestClose == [][C7_RefreshStep]_vars

\* C8: no price-refresh pass, on any route and over any Price Store content,
\* changes a field of a Holding whose symbol is 'NON-STOCK'.
C8_RefreshStep ==
    last'.op \in RefreshRoutes =>
        \A p \in portfolio : p.symbol = "NON-STOCK" => p \in portfolio'

C8_RefreshKeepsNonStock == [][C8_RefreshStep]_vars

\* C9: every Holding whose symbol is 'NON-STOCK' has shares = 1 and
\* average_price = latest_price = the value entered last through
\* update_market_value for its account.
C9_NonStockShape ==
    \A h \in portfolio :
        h.symbol = "NON-STOCK" =>
            /\ h.shares = 1
            /\ lastMV[h.account] # None
            /\ h.average_price = lastMV[h.account][1]
            /\ h.latest_price = lastMV[h.account]

NonStockOf(rows, account) ==
    {p \in rows : p.symbol = "NON-STOCK" /\ p.account = account}

\* Exactly one NON-STOCK Holding for each account named in a request.
OneNonStockPerAccount ==
    \A a \in Accounts :
        lastMV[a] # None => Cardinality(NonStockOf(portfolio, a)) = 1

\* An update_market_value step: the first request for an account inserts the
\* row; a later one overwrites average_price and latest_price of that row,
\* inserts nothing and changes no other Holding.
UpdateMarketValueEffect ==
    last'.op = "update_market_value" =>
        LET a == last'.account
            v == lastMV'[a][1]
        IN  IF lastMV[a] = None
            THEN /\ portfolio \subseteq portfolio'
                 /\ Cardinality(portfolio') = Cardinality(portfolio) + 1
                 /\ \A q \in portfolio' \ portfolio :
                       /\ q.symbol = "NON-STOCK" /\ q.account = a /\ q.shares = 1
                       /\ q.average_price = v /\ q.latest_price = Some(v)
            ELSE /\ Cardinality(portfolio') = Cardinality(portfolio)
                 /\ \A p \in portfolio :
                       IF p \in NonStockOf(portfolio, a)
                       THEN [p EXCEPT !.average_price = v,
                                      !.latest_price = Some(v)] \in portfolio'
                       ELSE p \in portfolio'

\* C10: the NON-STOCK Holding is get-or-create per account.
C10_GetOrCreate ==
    []OneNonStockPerAccount /\ [][UpdateMarketValueEffect]_vars

\* C10 witness: a later request for an account overwrote its row while the
\* other account's row, holding another value, stayed.
C10_Witness ==
    /\ last.op = "update_market_value"
    /\ ~last.inserted
    /\ Cardinality(portfolio) = 2
    /\ \E p, q \in portfolio :
          /\ p.account = last.account
          /\ q.account # last.account
          /\ p.average_price # q.average_price

\* The aggregate of one symbol as the claim C11 describes it.
ExpectedGroup(group) ==
    LET t   == GroupTotals(group)
        set == {h \in group : h.latest_price # None}
    IN  [total_shares  |-> t.total_shares,
         total_cost    |-> t.total_cost,
         market_value  |-> t.market_value,
         profit        |-> t.profit,
         average_price |-> IF t.total_shares # 0
                           THEN Ratio(t.total_cost, t.total_shares)
                           ELSE <<0, 1>>,
         latest_price  |-> IF set = {} THEN 0
                           ELSE (CHOOSE h \in set :
                                    \A q \in set : h.id <= q.id).latest_price[1]]

\* C11: my_stocks returns one entry per symbol other than 'NON-STOCK', with
\* the sums of shares, total_cost and market_value of the symbol's Holdings,
\* average_price = total_cost / total_shares whenever total_shares # 0
\* (negative included) and 0 otherwise, and the latest_price of the first
\* Holding of the symbol that has one set, else 0.
C11_MyStocksAggregate ==
    last.op = "my_stocks" =>
        /\ DOMAIN last.stocks = {h.symbol : h \in portfolio} \ {"NON-STOCK"}
        /\ \A symbol \in DOMAIN last.stocks :
              last.stocks[symbol] =
                  ExpectedGroup({h \in portfolio : h.symbol = symbol})

\* C12: the latest_price of every holding other than NON-STOCK is unset or is
\* a close the price store held as the most recent close of the holding's
\* current symbol at some earlier refresh pass.
C12_LatestPriceIsCachedClose ==
    \A h \in portfolio :
        h.symbol # "NON-STOCK" =>
            \/ h.latest_price = None
            \/ <<h.symbol, h.latest_price[1]>> \in seen

\* C13: in an upload request of several files, the count of processed files
\* is the count of files that raised nothing, and every record of a file
\* that was processed is in the price store when the request ends unless a
\* later file of the request replaced its date.
C13_UploadStep ==
    last'.op = "upload" =>
        LET files == last'.files
            ok    == Outcomes(stocks, files)
        IN  /\ last'.processed_files = Cardinality({i \in 1..Len(files) : ok[i]})
            /\ \A i \in 1..Len(files) :
                  ok[i] =>
                    \A r \in Range(ReadCsv(files[i])) :
                        \/ r \in stocks'
                        \/ \E j \in (i + 1)..Len(files) :
                              ok[j] /\ r.date \in UniqueDates(ReadCsv(files[j]))
C13_FailureIsPerFile == [][C13_UploadStep]_vars

\* C14: the rows of the stocks index are the records of the global maximum
\* date; the change percent of a row is (close - prior close) / prior close
\* * 100 for the symbol's record of the greatest date below that date when
\* there is one with a close other than 0, and 0 otherwise.
C14_IndexChangePct ==
    last.op = "index" =>
        LET d == Max({r.date : r \in stocks})
        IN  /\ {[symbol |-> row.symbol, close |-> row.close] : row \in last.rows}
                 = {[symbol |-> r.symbol, close |-> r.close] :
                      r \in {q \in stocks : q.date = d}}
            /\ \A row \in last.rows :
                  LET before == {r \in stocks : r.symbol = row.symbol /\ r.date < d}
                  IN  IF before = {}
                      THEN row.change_pct = Ratio(0, 1)
                      ELSE LET prior == CHOOSE r \in before :
                                          \A q \in before : q.date <= r.date
                           IN  IF prior.close = 0
                               THEN row.change_pct = Ratio(0, 1)
                               ELSE row.change_pct =
                                      Ratio((row.close - prior.close) * 100, prior.close)

\* C15: bulk_delete_account_snapshots removes exactly the account snapshots
\* that match every filter given (the account name, and the calendar day of
\* the timestamp), leaves every other account snapshot and every investment
\* snapshot as it was, reports the number of rows removed, and removes all
\* account snapshots when no filter is given.
C15_BulkDeleteStep ==
    last'.op = "bulk_delete_account_snapshots" =>
        LET removed == account_snapshots \ account_snapshots'
        IN  /\ account_snapshots' \subseteq account_snapshots
            /\ \A s \in account_snapshots :
                  s \in removed <=>
                    /\ last'.account = "" \/ s.account_name = last'.account
                    /\ last'.date = None \/ s.date.day = last'.date[1]
            /\ investment_snapshots' = investment_snapshots
            /\ last'.deleted = Cardinality(removed)
            /\ (last'.account = "" /\ last'.date = None) => account_snapshots' = {}
C15_BulkDeleteExact == [][C15_BulkDeleteStep]_vars

\* A bulk delete with both filters that removed a row and left a row of the
\* same account on another day, with an investment snapshot present.
C15_Witness ==
    /\ last.op = "bulk_delete_account_snapshots"
    /\ last.account # "" /\ last.date # None
    /\ last.deleted > 0
    /\ \E s \in account_snapshots : s.account_name = last.account
    /\ investment_snapshots # {}

\* The price store as the i-th file of a request finds it.
StoreBefore(store, files, i) == ProcessFiles(store, SubSeq(files, 1, i - 1)).store

\* C16: a file of an upload request whose processing fails at any step, the
\* insert after the committed delete included, leaves the price store
\* exactly as it was before that file was processed.
C16_FailedFileStep ==
    last'.op = "upload" =>
        LET files == last'.files
            ok    == Outcomes(stocks, files)
        IN  \A i \in 1..Len(files) :
                ~ok[i] =>
                    ProcessFile(StoreBefore(stocks, files, i), files[i]).store
                        = StoreBefore(stocks, files, i)
C16_FailedFileLeavesStore == [][C16_FailedFileStep]_vars

====
